---- MODULE Spec2Model ----
(***************************************************************************)
(* Chat-session persistence and identity model of LLM.py (Nexus AI).       *)
(*                                                                         *)
(* Python objects are modelled with their identity where the script        *)
(* depends on it: a chat dict is a record whose 'messages' field is the    *)
(* address of a list object in `heap`; dict.copy() copies the record and   *)
(* keeps the address (a shallow copy).  Strings are sequences of           *)
(* one-character strings, so that len() and slicing are computed.          *)
(***************************************************************************)
EXTENDS Integers, Sequences, FiniteSets, TLC

(* ------------------------------ bounds -------------------------------- *)
MaxChats == 2          \* most records kept in st.session_state.all_chats
MaxMsgs  == 4          \* most turns kept in one messages list
MaxTime  == 1          \* the clock stops after this many ticks
MaxRuns  == 4          \* script runs (user interactions) followed in one session
MaxItems == 2          \* most records in a store file written from outside
TicksPerSecond == 2    \* clock ticks per second of datetime.now()

(* --------------------------- program constants ------------------------ *)
TitleLimit == 30       \* prompt[:30] / len(prompt) > 30

(* ------------------------------ strings ------------------------------- *)
Rep(c, n) == [i \in 1..n |-> c]

NewChatTitle == <<"N", "e", "w", " ", "C", "h", "a", "t">>
Ellipsis     == <<".", ".", ".">>

\* questions st.chat_input may hand to the script
QEmpty  == <<>>
QSpaces == <<" ", " ">>
QShort  == <<"h", "i">>
QLong   == Rep("a", TitleLimit + 1)
Questions == {QEmpty, QSpaces, QShort, QLong}

\* texts typed into the edit form
EditedText == <<"e", "d">>

None == [none |-> TRUE]
Str(s) == [none |-> FALSE, text |-> s]

\* Python truthiness of an Optional[str]
Truthy(v) == ~v.none /\ Len(v.text) > 0

\* outcomes of model.generate_content(question)
GenOutcomes == { [raised |-> TRUE,  text |-> <<>>],
                 [raised |-> FALSE, text |-> <<>>],
                 [raised |-> FALSE, text |-> <<"o", "k">>] }

NoEdit == -1           \* st.session_state.editing_chat = None

VARIABLES
    now,            \* wall clock, in ticks
    model,          \* st.session_state.model: "GenerativeModel" or "None"
    heap,           \* the messages list objects, by address
    all_chats,      \* st.session_state.all_chats: sequence of chat dicts
    current_chat,   \* st.session_state.current_chat: a chat dict
    editing_chat,   \* st.session_state.editing_chat: a chat id or NoEdit
    file,           \* content of chat_history.json
    loaded,         \* value returned by the last load_chats() call
    last,           \* the widget that triggered the last script run
    runs            \* script runs since the session started

vars == <<now, model, heap, all_chats, current_chat, editing_chat, file, loaded, last, runs>>

(* ------------------------- pure functions ----------------------------- *)
\* datetime.now().strftime("%Y%m%d%H%M%S"): the time truncated to seconds
strftime(t) == t \div TicksPerSecond

generate_chat_title(prompt) ==
    IF Len(prompt) > TitleLimit
    THEN SubSeq(prompt, 1, TitleLimit) \o Ellipsis
    ELSE prompt

generate_response(outcome) ==
    IF outcome.raised THEN None ELSE Str(outcome.text)

configure_gemini(env) ==
    IF ~env.api_key THEN "None"
    ELSE IF env.init_fails THEN "None"
    ELSE "GenerativeModel"

(* ------------------------------ storage ------------------------------- *)
\* json.dump(chats, f): every dict written by value, lists dereferenced
json_dump(chats, h) ==
    [t |-> "array",
     items |-> [i \in 1..Len(chats) |->
                  [id |-> chats[i].id, title |-> chats[i].title,
                   messages |-> h[chats[i].messages]]]]

\* json.load(f): a JSON array becomes a list, an object a dict, a number an int
json_load(val) ==
    CASE val.t = "array"  -> [t |-> "list", items |-> val.items]
      [] val.t = "object" -> [t |-> "dict"]
      [] val.t = "number" -> [t |-> "int"]

load_chats(f) ==
    CASE f.kind = "missing"     -> [t |-> "list", items |-> <<>>]
      [] f.kind = "garbage"     -> [t |-> "list", items |-> <<>>]
      [] f.kind = "json"        -> json_load(f.val)

\* open(..., 'a'): the dump lands after what the file already holds
save_chats_AppendMode(chats, h) ==
    IF file.kind = "missing"
    THEN [kind |-> "json", val |-> json_dump(chats, h)]
    ELSE [kind |-> "garbage"]

save_chats(chats, h) == [kind |-> "json", val |-> json_dump(chats, h)]

\* the list objects json.load builds: one fresh list per record
LoadedChats(items, base) ==
    [i \in 1..Len(items) |->
       [id |-> items[i].id, title |-> items[i].title, messages |-> base + i]]
LoadedHeap(items) == [i \in 1..Len(items) |-> items[i].messages]

(* ------------------------------ objects ------------------------------- *)
\* dict == dict: same id, same title, equal message lists
DictEq(a, b, h) ==
    a.id = b.id /\ a.title = b.title /\ h[a.messages] = h[b.messages]

\* membership decided by id alone
Contains_ById(chats, c, h) == \E i \in 1..Len(chats) : chats[i].id = c.id

\* current_chat in all_chats
Contains(chats, c, h) == \E i \in 1..Len(chats) : DictEq(chats[i], c, h)

\* list objects no dict refers to are freed; the live ones are numbered in
\* the order current_chat, all_chats[1], all_chats[2], ... first refer to them
Refs(cur, chats) ==
    <<cur.messages>> \o [i \in 1..Len(chats) |-> chats[i].messages]
Live(refs) == {refs[i] : i \in 1..Len(refs)}
FirstPos(refs, a) ==
    CHOOSE i \in 1..Len(refs) : refs[i] = a /\ \A j \in 1..(i - 1) : refs[j] # a
Rank(refs, a) == Cardinality({refs[j] : j \in 1..FirstPos(refs, a)})
AddrOfRank(refs, n) == CHOOSE a \in Live(refs) : Rank(refs, a) = n

SetObjects(cur, chats, h) ==
    LET refs == Refs(cur, chats) IN
    /\ heap' = [n \in 1..Cardinality(Live(refs)) |-> h[AddrOfRank(refs, n)]]
    /\ current_chat' = [cur EXCEPT !.messages = Rank(refs, @)]
    /\ all_chats' = [i \in 1..Len(chats) |->
                       [chats[i] EXCEPT !.messages = Rank(refs, @)]]

Messages(c) == heap[c.messages]

(* ------------------------------- start -------------------------------- *)
Environments == [api_key : BOOLEAN, init_fails : BOOLEAN]

StoredExchange ==
    [id |-> 0, title |-> QShort,
     messages |-> << [role |-> "user", content |-> QShort],
                     [role |-> "ai", content |-> <<"o", "k">>] >>]
StoredEmpty == [id |-> 0, title |-> NewChatTitle, messages |-> <<>>]

\* contents of chat_history.json a session starts from
StartFiles ==
    { [kind |-> "missing"], [kind |-> "garbage"],
      [kind |-> "json", val |-> [t |-> "array", items |-> <<>>]],
      [kind |-> "json", val |-> [t |-> "array", items |-> <<StoredExchange>>]],
      [kind |-> "json", val |-> [t |-> "array", items |-> <<StoredEmpty>>]] }

\* lines 90-100 of main(), first run of a session
Init ==
    /\ now = TicksPerSecond
    /\ \E env \in Environments : model = configure_gemini(env)
    /\ \E f \in StartFiles :
         /\ file = f
         /\ loaded = load_chats(f)
         /\ all_chats = LoadedChats(load_chats(f).items, 1)
         /\ heap = <<<<>>>> \o LoadedHeap(load_chats(f).items)
    /\ current_chat = [id |-> strftime(TicksPerSecond), title |-> NewChatTitle, messages |-> 1]
    /\ editing_chat = NoEdit
    /\ last = [ev |-> "start", called |-> FALSE]
    /\ runs = 0

(* ------------------------------ actions ------------------------------- *)
\* time passes between two script runs
Tick ==
    /\ now < TicksPerSecond + MaxTime
    /\ now' = now + 1
    /\ UNCHANGED <<model, heap, all_chats, current_chat, editing_chat, file, loaded, last, runs>>

\* one more run of the script, triggered by widget `ev`
Rerun(ev, called) ==
    /\ runs < MaxRuns
    /\ runs' = runs + 1
    /\ last' = [ev |-> ev, called |-> called]

\* create_new_chat(): a new dict with a new, empty list
create_new_chat(h, t) ==
    [chat |-> [id |-> strftime(t), title |-> NewChatTitle, messages |-> Len(h) + 1],
     heap |-> Append(h, <<>>)]

\* "New Chat" button, lines 107-109
NewChat ==
    /\ Rerun("new_chat", FALSE)
    /\ LET made == create_new_chat(heap, now)
       IN  SetObjects(made.chat, all_chats, made.heap)
    /\ editing_chat' = NoEdit
    /\ UNCHANGED <<now, model, file, loaded>>

\* history button of all_chats[i], lines 115-122: chat.copy() keeps the list
SelectChat(i) ==
    /\ Rerun("select", FALSE)
    /\ i \in 1..Len(all_chats)
    /\ SetObjects(all_chats[i], all_chats, heap)
    /\ editing_chat' = NoEdit
    /\ UNCHANGED <<now, model, file, loaded>>

\* an edit handler that records the displayed chat instead of the clicked one
handle_chat_edit_Current(chat_id) == editing_chat' = current_chat.id

\* handle_chat_edit, lines 66-67
handle_chat_edit(chat_id) == editing_chat' = chat_id

\* edit button of all_chats[i], lines 124-125
EditChat(i) ==
    /\ Rerun("edit", FALSE)
    /\ i \in 1..Len(all_chats)
    /\ handle_chat_edit(all_chats[i].id)
    /\ UNCHANGED <<now, model, heap, all_chats, current_chat, file, loaded>>

\* next(chat for chat in all_chats if chat['id'] == editing_chat), as an index; 0 is None
EditedIndex ==
    IF \E i \in 1..Len(all_chats) : all_chats[i].id = editing_chat
    THEN CHOOSE i \in 1..Len(all_chats) :
            /\ all_chats[i].id = editing_chat
            /\ \A j \in 1..(i - 1) : all_chats[j].id # editing_chat
    ELSE 0

\* the edit form is shown: editing_chat is truthy and names a stored chat
InEditForm == editing_chat # NoEdit /\ EditedIndex # 0

\* what the form's widgets can return for one turn (selectbox, text_area)
OtherRole(r) == IF r = "user" THEN "ai" ELSE "user"
FormTurns(msg) ==
    { msg, [role |-> OtherRole(msg.role), content |-> EditedText] }
FormMessages(msgs) ==
    { ms \in [1..Len(msgs) -> UNION {FormTurns(msgs[i]) : i \in 1..Len(msgs)}] :
        \A i \in 1..Len(msgs) : ms[i] \in FormTurns(msgs[i]) }
FormTitles(title) == {title, EditedText}

\* a Save Changes that stores a newly built dict, with a new id
SaveChanges_NewId(new_title, new_messages) ==
    /\ Rerun("save_changes", FALSE)
    /\ InEditForm
    /\ LET k  == EditedIndex
           h1 == Append(heap, new_messages)
           chats1 == [all_chats EXCEPT ![k] =
                        [id |-> strftime(now) + 1, title |-> new_title,
                         messages |-> Len(h1)]]
       IN  /\ SetObjects(current_chat, chats1, h1)
           /\ file' = save_chats(chats1, h1)
    /\ editing_chat' = NoEdit
    /\ UNCHANGED <<now, model, loaded>>

\* "Save Changes" button, lines 157-163
SaveChanges(new_title, new_messages) ==
    /\ Rerun("save_changes", FALSE)
    /\ InEditForm
    /\ LET k  == EditedIndex
           h1 == Append(heap, new_messages)
           chats1 == [all_chats EXCEPT ![k] =
                        [@ EXCEPT !.title = new_title, !.messages = Len(h1)]]
       IN  /\ SetObjects(current_chat, chats1, h1)
           /\ file' = save_chats(chats1, h1)
    /\ editing_chat' = NoEdit
    /\ UNCHANGED <<now, model, loaded>>

\* a Cancel Edit that forgets to leave the edit form
CancelEdit_KeepsEditing ==
    /\ Rerun("cancel", FALSE)
    /\ InEditForm
    /\ UNCHANGED <<now, model, heap, all_chats, current_chat, editing_chat, file, loaded>>

\* "Cancel Edit" button, lines 165-167
CancelEdit ==
    /\ Rerun("cancel", FALSE)
    /\ InEditForm
    /\ editing_chat' = NoEdit
    /\ UNCHANGED <<now, model, heap, all_chats, current_chat, file, loaded>>

UserTurn(q) == [role |-> "user", content |-> q]
AiTurn(r)   == [role |-> "ai", content |-> r]

\* a list.insert(0, turn) in place of the append
ListAppend_AtFront(h, a, turn) == [h EXCEPT ![a] = <<turn>> \o @]

\* current_chat['messages'].append(turn), lines 180 and 190
ListAppend(h, a, turn) == [h EXCEPT ![a] = Append(@, turn)]

\* a guard that forgets the model
Attempted_WithoutModel(question) == Len(question) > 0

\* if question and st.session_state.model, line 178
Attempted(question) == Len(question) > 0 /\ model # "None"

\* st.chat_input returns question, lines 176-204
Submit(question, outcome) ==
    /\ runs < MaxRuns
    /\ editing_chat = NoEdit
    /\ LET a  == current_chat.messages
           attempted == Attempted(question)
           h1 == ListAppend(heap, a, UserTurn(question))
           response == generate_response(outcome)
           h2 == ListAppend(h1, a, AiTurn(response.text))
           titled == IF Len(h2[a]) = 2
                     THEN [current_chat EXCEPT !.title = generate_chat_title(question)]
                     ELSE current_chat
           absent == ~Contains(all_chats, titled, h2)
           chats2 == IF absent THEN Append(all_chats, titled) ELSE all_chats
       IN  IF ~attempted
           THEN /\ Rerun("submit", FALSE)
                /\ UNCHANGED <<heap, all_chats, current_chat, file>>
           ELSE IF ~Truthy(response)
           THEN /\ Len(heap[a]) + 1 <= MaxMsgs
                /\ SetObjects(current_chat, all_chats, h1)
                /\ Rerun("submit", TRUE)
                /\ UNCHANGED file
           ELSE /\ Len(heap[a]) + 2 <= MaxMsgs
                /\ absent => Len(all_chats) < MaxChats
                /\ SetObjects(titled, chats2, h2)
                /\ file' = IF absent THEN save_chats(chats2, h2) ELSE file
                /\ Rerun("submit", TRUE)
    /\ UNCHANGED <<now, model, editing_chat, loaded>>

\* a Save Chat that puts the chat at the head of the list
SaveChat_Prepends ==
    /\ Rerun("save_chat", FALSE)
    /\ editing_chat = NoEdit
    /\ Len(Messages(current_chat)) > 0
    /\ LET absent == ~Contains(all_chats, current_chat, heap)
           chats1 == IF absent THEN <<current_chat>> \o all_chats ELSE all_chats
       IN  /\ absent => Len(all_chats) < MaxChats
           /\ SetObjects(current_chat, chats1, heap)
           /\ file' = IF absent THEN save_chats(chats1, heap) ELSE file
    /\ UNCHANGED <<now, model, editing_chat, loaded>>

\* "Save Chat" button, lines 207-212
SaveChat ==
    /\ Rerun("save_chat", FALSE)
    /\ editing_chat = NoEdit
    /\ Len(Messages(current_chat)) > 0
    /\ LET absent == ~Contains(all_chats, current_chat, heap)
           chats1 == IF absent THEN Append(all_chats, current_chat) ELSE all_chats
       IN  /\ absent => Len(all_chats) < MaxChats
           /\ SetObjects(current_chat, chats1, heap)
           /\ file' = IF absent THEN save_chats(chats1, heap) ELSE file
    /\ UNCHANGED <<now, model, editing_chat, loaded>>

Next ==
    \/ Tick
    \/ NewChat
    \/ \E i \in 1..MaxChats : SelectChat(i)
    \/ \E i \in 1..MaxChats : EditChat(i)
    \/ /\ InEditForm
       /\ \E t \in FormTitles(all_chats[EditedIndex].title),
             ms \in FormMessages(Messages(all_chats[EditedIndex])) : SaveChanges(t, ms)
    \/ CancelEdit
    \/ \E q \in Questions, o \in GenOutcomes : Submit(q, o)
    \/ SaveChat

Spec == Init /\ [][Next]_vars

\* sessions in which no stored chat is ever rewritten through the edit form
NextNoEdit ==
    \/ Tick
    \/ NewChat
    \/ \E i \in 1..MaxChats : SelectChat(i)
    \/ \E i \in 1..MaxChats : EditChat(i)
    \/ CancelEdit
    \/ \E q \in Questions, o \in GenOutcomes : Submit(q, o)
    \/ SaveChat

SpecNoEdit == Init /\ [][NextNoEdit]_vars

\* sessions that start with nothing in the store
InitEmptyStore == Init /\ all_chats = <<>>

SpecEmptyStore == InitEmptyStore /\ [][Next]_vars

(* ------------------------ the store on its own ------------------------ *)
\* load_chats / save_chats applied to any content of chat_history.json
NotLoaded == [t |-> "not loaded"]
JNumber == [t |-> "number"]
JObject == [t |-> "object"]

RecordValues ==
    { [StoredExchange EXCEPT !.id = i] : i \in {0, 1} }
    \cup { [StoredEmpty EXCEPT !.id = i] : i \in {0, 1} }
RecordSeqs == UNION { [1..n -> RecordValues] : n \in 0..MaxItems }

\* a file that is missing, or does not hold a JSON array of chat records
BrokenFiles ==
    { [kind |-> "missing"], [kind |-> "garbage"],
      [kind |-> "json", val |-> JNumber], [kind |-> "json", val |-> JObject],
      [kind |-> "json", val |-> [t |-> "array", items |-> <<JNumber>>]] }
ExternalFiles ==
    BrokenFiles
    \cup { [kind |-> "json", val |-> [t |-> "array", items |-> rs]] : rs \in RecordSeqs }

InitStore ==
    /\ now = TicksPerSecond
    /\ model = "None"
    /\ file \in ExternalFiles
    /\ loaded = NotLoaded
    /\ all_chats = <<>>
    /\ heap = <<<<>>>>
    /\ current_chat = [id |-> strftime(TicksPerSecond), title |-> NewChatTitle, messages |-> 1]
    /\ editing_chat = NoEdit
    /\ last = [ev |-> "start", called |-> FALSE]
    /\ runs = 0

\* a call of load_chats()
StoreLoad ==
    /\ loaded = NotLoaded
    /\ loaded' = load_chats(file)
    /\ last' = [ev |-> "load_chats", called |-> FALSE]
    /\ UNCHANGED <<now, model, heap, all_chats, current_chat, editing_chat, file, runs>>

\* a call of save_chats(chats) with the list chats = rs
StoreSave(rs) ==
    /\ all_chats' = LoadedChats(rs, 1)
    /\ heap' = <<<<>>>> \o LoadedHeap(rs)
    /\ file' = save_chats(all_chats', heap')
    /\ loaded' = NotLoaded
    /\ last' = [ev |-> "save_chats", called |-> FALSE]
    /\ UNCHANGED <<now, model, current_chat, editing_chat, runs>>

\* another program removes the file or overwrites it
ExternalWrite(f) ==
    /\ file' = f
    /\ file' # file
    /\ loaded' = NotLoaded
    /\ last' = [ev |-> "external", called |-> FALSE]
    /\ UNCHANGED <<now, model, heap, all_chats, current_chat, editing_chat, runs>>

NextStore ==
    \/ StoreLoad
    \/ \E rs \in RecordSeqs : StoreSave(rs)
    \/ \E f \in BrokenFiles : ExternalWrite(f)

SpecStore == InitStore /\ [][NextStore]_vars

(* ============================== properties ============================ *)
\* a chat dict and the store, by value
ValueOf(c, h) == [id |-> c.id, title |-> c.title, messages |-> h[c.messages]]
StoreValues(chats, h) == [i \in 1..Len(chats) |-> ValueOf(chats[i], h)]
ArrayFile(items) == [kind |-> "json", val |-> [t |-> "array", items |-> items]]
FileRecords(f) ==
    IF f.kind = "json" /\ f.val.t = "array" THEN f.val.items ELSE <<>>

CurrentUntouched == ValueOf(current_chat', heap') = ValueOf(current_chat, heap)
StoreUntouched == StoreValues(all_chats', heap') = StoreValues(all_chats, heap)

IsBlank(q) == \A i \in 1..Len(q) : q[i] = " "
ExpectedTitle(q) ==
    IF Len(q) <= 30 THEN q ELSE [i \in 1..33 |-> IF i <= 30 THEN q[i] ELSE "."]
HasExchange(msgs) ==
    \E i \in 1..(Len(msgs) - 1) : msgs[i].role = "user" /\ msgs[i + 1].role = "ai"
HasUserTurn(msgs) == \E i \in 1..Len(msgs) : msgs[i].role = "user"
FirstUserTurn(msgs) ==
    msgs[CHOOSE i \in 1..Len(msgs) :
            msgs[i].role = "user" /\ \A j \in 1..(i - 1) : msgs[j].role # "user"]

\* C1: after a chat is selected from the history, a submission on the current
\* chat leaves the title and messages of every chat already in the store as
\* they were (the current chat is an independent copy).
C1_SelectedCopyIndependent ==
    [][ (last.ev = "select" /\ \E q \in Questions, o \in GenOutcomes : Submit(q, o))
        => \A i \in 1..Len(all_chats) :
              ValueOf(all_chats'[i], heap') = ValueOf(all_chats[i], heap) ]_vars

\* C2: a submission whose generation call fails changes neither the current
\* chat, nor the store, nor the file.
C2_FailedTurnAborted ==
    [][ (\E q \in Questions, o \in GenOutcomes :
            /\ Len(q) > 0 /\ model # "None" /\ o.raised
            /\ Submit(q, o))
        => CurrentUntouched /\ StoreUntouched /\ file' = file ]_vars

\* C3: after every successful submission the current chat has the two new
\* turns, is in the store, and the file holds exactly the store.
C3_EverySubmissionPersisted ==
    [][ \A q \in Questions, o \in GenOutcomes :
          ( /\ Len(q) > 0 /\ model # "None" /\ ~o.raised /\ Len(o.text) > 0
            /\ Submit(q, o) )
          => /\ heap'[current_chat'.messages] =
                  Messages(current_chat) \o <<UserTurn(q), AiTurn(o.text)>>
             /\ \E i \in 1..Len(all_chats') :
                  ValueOf(all_chats'[i], heap') = ValueOf(current_chat', heap')
             /\ file' = ArrayFile(StoreValues(all_chats', heap')) ]_vars

\* C4: an empty or whitespace-only question is rejected: nothing changes and
\* the generation capability is not invoked.
C4_BlankQuestionRejected ==
    [][ (\E q \in Questions, o \in GenOutcomes : IsBlank(q) /\ Submit(q, o))
        => /\ CurrentUntouched /\ StoreUntouched /\ file' = file
           /\ ~last'.called ]_vars

\* C5: a non-empty question submitted to a chat without messages, answered by
\* any returned response, leaves exactly [user: q, ai: response] and the title
\* q, or the first 30 characters of q followed by "...".
C5_FirstExchange ==
    [][ \A q \in Questions, o \in GenOutcomes :
          ( /\ Len(q) > 0 /\ model # "None" /\ ~o.raised
            /\ Len(Messages(current_chat)) = 0
            /\ Submit(q, o) )
          => /\ heap'[current_chat'.messages] = <<UserTurn(q), AiTurn(o.text)>>
             /\ current_chat'.title = ExpectedTitle(q) ]_vars

\* C6: a chat, current or stored, that holds a completed exchange does not
\* carry the placeholder title: its title is derived from its first user turn.
TitledAfterExchange(c) ==
    HasExchange(Messages(c))
    => /\ c.title # NewChatTitle
       /\ c.title = ExpectedTitle(FirstUserTurn(Messages(c)).content)
C6_ExchangeHasDerivedTitle ==
    /\ TitledAfterExchange(current_chat)
    /\ \A i \in 1..Len(all_chats) : TitledAfterExchange(all_chats[i])

\* C7: Save Changes replaces the title and messages of the edited chat only,
\* writes the whole store and leaves the edit form; every other chat is the
\* same before and after, in the store and in the file.
C7_SaveChangesTouchesOneRecord ==
    [][ InEditForm =>
        \A t \in FormTitles(all_chats[EditedIndex].title),
           ms \in FormMessages(Messages(all_chats[EditedIndex])) :
          SaveChanges(t, ms)
          => LET k == EditedIndex IN
             /\ Len(all_chats') = Len(all_chats)
             /\ ValueOf(all_chats'[k], heap') =
                  [id |-> all_chats[k].id, title |-> t, messages |-> ms]
             /\ file' = ArrayFile(StoreValues(all_chats', heap'))
             /\ editing_chat' = NoEdit
             /\ \A j \in 1..Len(all_chats) : j # k =>
                  /\ ValueOf(all_chats'[j], heap') = ValueOf(all_chats[j], heap)
                  /\ j \in DOMAIN FileRecords(file)
                  /\ FileRecords(file')[j] = FileRecords(file)[j] ]_vars

\* the part of C7 about the store in memory
C7_InMemoryPart ==
    [][ InEditForm =>
        \A t \in FormTitles(all_chats[EditedIndex].title),
           ms \in FormMessages(Messages(all_chats[EditedIndex])) :
          SaveChanges(t, ms)
          => LET k == EditedIndex IN
             /\ ValueOf(all_chats'[k], heap') =
                  [id |-> all_chats[k].id, title |-> t, messages |-> ms]
             /\ file' = ArrayFile(StoreValues(all_chats', heap'))
             /\ \A j \in 1..Len(all_chats) : j # k =>
                  ValueOf(all_chats'[j], heap') = ValueOf(all_chats[j], heap) ]_vars

\* C8: Cancel Edit leaves the edit form and changes neither the store, nor the
\* file, nor the current chat.
C8_CancelEditDiscards ==
    [][ CancelEdit
        => /\ editing_chat' = NoEdit
           /\ CurrentUntouched /\ StoreUntouched /\ file' = file ]_vars
C8_Witness ==
    /\ last.ev = "cancel"
    /\ editing_chat = NoEdit
    /\ Len(all_chats) > 0

\* C9: Save Chat appends the current chat and writes the store exactly when
\* no chat with the same id, title and messages is in the store; otherwise
\* neither the store nor the file changes.
C9_SaveChatByValue ==
    [][ SaveChat
        => IF \E i \in 1..Len(all_chats) :
                 ValueOf(all_chats[i], heap) = ValueOf(current_chat, heap)
           THEN StoreUntouched /\ file' = file
           ELSE /\ StoreValues(all_chats', heap') =
                     Append(StoreValues(all_chats, heap), ValueOf(current_chat, heap))
                /\ file' = ArrayFile(StoreValues(all_chats', heap')) ]_vars
\* a Save Chat of a chat holding one unanswered question, first thing after
\* that question: the chat was appended and written
C9_Witness ==
    /\ last.ev = "save_chat"
    /\ runs = 2
    /\ Len(Messages(current_chat)) = 1
    /\ \E i \in 1..Len(all_chats) :
          ValueOf(all_chats[i], heap) = ValueOf(current_chat, heap)
    /\ file = ArrayFile(StoreValues(all_chats, heap))

\* C10: load_chats returns the empty list whenever the file is missing or is
\* anything but a JSON array of chat records.
IsChatRecord(x) == DOMAIN x = {"id", "title", "messages"}
IsBroken(f) ==
    \/ f.kind # "json"
    \/ f.val.t # "array"
    \/ \E i \in 1..Len(f.val.items) : ~IsChatRecord(f.val.items[i])
C10_BrokenFileLoadsEmpty ==
    (loaded # NotLoaded /\ IsBroken(file)) => loaded = [t |-> "list", items |-> <<>>]

StepIs(ev) == runs' = runs + 1 /\ last'.ev = ev

\* C12: a model that configure_gemini could not build (no API key, or an
\* initialisation error) stays None for the whole session, and every
\* submission is then rejected: no turn, no generation call, store and file
\* unchanged.
C12_NoModelNoSubmission ==
    [][ /\ \A env \in Environments :
             (~env.api_key \/ env.init_fails) => configure_gemini(env) = "None"
        /\ model = "None" => model' = "None"
        /\ (model = "None" /\ \E q \in Questions, o \in GenOutcomes : Submit(q, o))
           => /\ CurrentUntouched /\ StoreUntouched /\ file' = file
              /\ heap' = heap
              /\ ~last'.called ]_vars
C12_Witness ==
    /\ model = "None"
    /\ last.ev = "submit"
    /\ ~last.called
    /\ runs > 0

StoreIds(chats) == {chats[i].id : i \in 1..Len(chats)}

\* C13: New Chat makes the current chat a fresh one (no messages, title
\* "New Chat") whose id differs from the id of every stored chat and of the
\* previous current chat, clears the editing selection and leaves store and
\* file unchanged.
C13_NewChatIsFresh ==
    [][ NewChat
        => /\ heap'[current_chat'.messages] = <<>>
           /\ current_chat'.title = NewChatTitle
           /\ current_chat'.id \notin StoreIds(all_chats)
           /\ current_chat'.id # current_chat.id
           /\ editing_chat' = NoEdit
           /\ StoreUntouched /\ file' = file ]_vars

\* the part of C13 that does not speak of the id
C13_ExceptId ==
    [][ NewChat
        => /\ heap'[current_chat'.messages] = <<>>
           /\ current_chat'.title = NewChatTitle
           /\ \A i \in 1..Len(all_chats') :
                 all_chats'[i].messages # current_chat'.messages
           /\ editing_chat' = NoEdit
           /\ StoreUntouched /\ file' = file ]_vars

\* C14: no step changes the id of a stored chat, and the id of the current
\* chat changes only in a New Chat or a history-button step.
C14_IdsImmutable ==
    [][ /\ Len(all_chats') >= Len(all_chats)
        /\ \A i \in 1..Len(all_chats) : all_chats'[i].id = all_chats[i].id
        /\ current_chat'.id # current_chat.id
           => (StepIs("new_chat") \/ StepIs("select")) ]_vars
\* a stored chat was rewritten through the edit form
C14_Witness ==
    /\ last.ev = "save_changes"
    /\ \E i \in 1..Len(all_chats) :
          /\ all_chats[i].title = EditedText
          /\ Len(Messages(all_chats[i])) > 0
          /\ Messages(all_chats[i])[1].content = EditedText

IsPrefix(a, b) == Len(a) <= Len(b) /\ SubSeq(b, 1, Len(a)) = a

\* C15: in every step other than Save Changes the messages of each stored
\* chat, and of the current chat unless New Chat or a history button replaced
\* it, are extended at the end or left alone.
C15_MessagesAppendOnly ==
    [][ ~StepIs("save_changes")
        => /\ \A i \in 1..Len(all_chats) :
                 /\ i <= Len(all_chats')
                 /\ IsPrefix(heap[all_chats[i].messages], heap'[all_chats'[i].messages])
           /\ ~(StepIs("new_chat") \/ StepIs("select"))
              => IsPrefix(Messages(current_chat), heap'[current_chat'.messages]) ]_vars
\* a submission answered on a chat that already had turns
C15_Witness ==
    /\ last.ev = "submit"
    /\ last.called
    /\ Len(Messages(current_chat)) = 4
    /\ Messages(current_chat)[4].role = "ai"

\* C16: in a session started with an empty store no two stored chats have
\* the same id.
C16_StoredIdsDistinct ==
    \A i, j \in 1..Len(all_chats) : i # j => all_chats[i].id # all_chats[j].id

IdsOf(chats) == [i \in 1..Len(chats) |-> chats[i].id]

\* C17: every step leaves the sequence of stored ids as it is or adds one id
\* at its end; no stored chat is removed or moved.
C17_StoreOnlyGrows ==
    [][ \/ IdsOf(all_chats') = IdsOf(all_chats)
        \/ /\ Len(all_chats') = Len(all_chats) + 1
           /\ SubSeq(IdsOf(all_chats'), 1, Len(all_chats)) = IdsOf(all_chats) ]_vars
\* the first run of a session appended a second chat behind the loaded one
C17_Witness ==
    /\ runs = 1
    /\ Len(all_chats) = 2
    /\ all_chats[1].id # all_chats[2].id
    /\ all_chats[2].id = current_chat.id

MessageCounts(chats, h) == [i \in 1..Len(chats) |-> Len(h[chats[i].messages])]

\* C18: an edit selection always names a stored chat, and while one is set no
\* step is a submission or a Save Chat: no stored chat gains a turn and the
\* store gains no chat.
C18_EditingExclusive ==
    [][ /\ editing_chat' # NoEdit =>
              \E i \in 1..Len(all_chats') : all_chats'[i].id = editing_chat'
        /\ editing_chat # NoEdit =>
              /\ ~StepIs("submit")
              /\ ~StepIs("save_chat")
              /\ Len(all_chats') = Len(all_chats)
              /\ MessageCounts(all_chats', heap') = MessageCounts(all_chats, heap) ]_vars
\* the edit form is open on a stored chat while the displayed chat has turns
C18_Witness ==
    /\ last.ev = "edit"
    /\ InEditForm
    /\ Len(Messages(current_chat)) > 0

====
